---- MODULE Spec2Model ----
(***************************************************************************)
(* Model of src/id_extractor.py: the command-line entry point, the image   *)
(* loader image_to_base64, the digit normaliser manual_conversion_fallback *)
(* and the retry loop of extract_id_from_image.                            *)
(*                                                                         *)
(* A Python str is a sequence of Unicode code points (naturals).  The      *)
(* Python value None is the one-element sequence <<-1>>, which is no str   *)
(* because -1 is no code point.  The console is the sequence log of the    *)
(* messages printed, without the values interpolated into them.            *)
(***************************************************************************)
EXTENDS Integers, Sequences, FiniteSets, TLC

\* ------------------------------------------------------------------------
\* Bounds of the model
\* ------------------------------------------------------------------------

\* longest run of characters of one kind in a generated response text
MaxRun == 8

\* ------------------------------------------------------------------------
\* Python values and built-ins
\* ------------------------------------------------------------------------

None == << -1 >>

\* truth value of a str-or-None: None and "" are false
Truthy(v) == v /= None /\ v /= << >>

\* str.isdigit on the code points of the model's alphabet: ASCII digits,
\* ARABIC-INDIC digits U+0660..U+0669, EXTENDED ARABIC-INDIC digits
\* U+06F0..U+06F9 and the superscript digits U+00B2, U+00B3, U+00B9
str_isdigit(c) ==
    \/ c \in 48..57
    \/ c \in 1632..1641
    \/ c \in 1776..1785
    \/ c \in {178, 179, 185}

\* str.isspace on the code points of the model's alphabet
str_isspace(c) == c \in {9, 10, 11, 12, 13, 28, 29, 30, 31, 32, 133, 160}

RECURSIVE lstrip(_)
lstrip(s) ==
    IF s = << >> THEN << >>
    ELSE IF str_isspace(Head(s)) THEN lstrip(Tail(s))
    ELSE s

RECURSIVE rstrip(_)
rstrip(s) ==
    IF s = << >> THEN << >>
    ELSE IF str_isspace(s[Len(s)]) THEN rstrip(SubSeq(s, 1, Len(s) - 1))
    ELSE s

\* str.strip()
strip(s) == rstrip(lstrip(s))

\* ''.join(filter(str.isdigit, s))
filter_isdigit(s) == SelectSeq(s, str_isdigit)

\* s[:n]
Prefix(s, n) == SubSeq(s, 1, IF Len(s) < n THEN Len(s) ELSE n)

\* ------------------------------------------------------------------------
\* base64.b64encode(...).decode("utf-8")
\* ------------------------------------------------------------------------

B64Char(i) ==
    IF i < 26 THEN 65 + i
    ELSE IF i < 52 THEN 97 + (i - 26)
    ELSE IF i < 62 THEN 48 + (i - 52)
    ELSE IF i = 62 THEN 43
    ELSE 47

RECURSIVE b64encode(_)
b64encode(bytes) ==
    IF Len(bytes) = 0 THEN << >>
    ELSE IF Len(bytes) = 1 THEN
        << B64Char(bytes[1] \div 4), B64Char((bytes[1] % 4) * 16), 61, 61 >>
    ELSE IF Len(bytes) = 2 THEN
        << B64Char(bytes[1] \div 4),
           B64Char((bytes[1] % 4) * 16 + bytes[2] \div 16),
           B64Char((bytes[2] % 16) * 4), 61 >>
    ELSE
        << B64Char(bytes[1] \div 4),
           B64Char((bytes[1] % 4) * 16 + bytes[2] \div 16),
           B64Char((bytes[2] % 16) * 4 + bytes[3] \div 64),
           B64Char(bytes[3] % 64) >>
        \o b64encode(SubSeq(bytes, 4, Len(bytes)))

\* ------------------------------------------------------------------------
\* Configuration
\* ------------------------------------------------------------------------

PLACEHOLDER == "PUT_YOUR_API_KEY_HERE"

\* os.environ.get(key, default); the environment is a set of <<name, value>>
environ_get(environ, key, default) ==
    IF \E p \in environ : p[1] = key
    THEN (CHOOSE p \in environ : p[1] = key)[2]
    ELSE default

max_retries == 5

\* the length of a national ID
ID_LENGTH == 14

\* ------------------------------------------------------------------------
\* manual_conversion_fallback
\* ------------------------------------------------------------------------

ARABIC_TO_WESTERN == [c \in 1632..1641 |-> 48 + (c - 1632)]

\* ARABIC_TO_WESTERN.get(c, c)
dict_get(c) == IF c \in DOMAIN ARABIC_TO_WESTERN THEN ARABIC_TO_WESTERN[c] ELSE c

\* ''.join(ARABIC_TO_WESTERN.get(c, c) for c in text)
western_digits(text) == [i \in 1..Len(text) |-> dict_get(text[i])]

manual_conversion_fallback(text) ==
    LET final_id == filter_isdigit(western_digits(text))
    IN  IF Len(final_id) >= ID_LENGTH THEN Prefix(final_id, ID_LENGTH) ELSE None

\* ------------------------------------------------------------------------
\* The environment: files, remote responses, response texts
\* ------------------------------------------------------------------------

\* what open(filepath, "rb") / f.read() can do: raise FileNotFoundError,
\* raise another exception, or yield the bytes of the file
FileStates ==
    { [open |-> "FileNotFoundError", bytes |-> << >>],
      [open |-> "OSError", bytes |-> << >>],
      [open |-> "ok", bytes |-> << >>],
      [open |-> "ok", bytes |-> << 255, 0 >>],
      [open |-> "ok", bytes |-> << 77, 97, 110, 33 >>] }

Paths == {"id.jpg", "missing.jpg"}

EnvValues ==
    { {}, {<<"GEMINI_API_KEY", PLACEHOLDER>>}, {<<"GEMINI_API_KEY", "key-1">>} }

Kinds == {"west", "east", "ext", "punct"}

\* the j-th character of a run: digits count 1, 2, ..., 9, 0, 1, ...
CharOf(kind, j) ==
    IF kind = "west" THEN 48 + (j % 10)
    ELSE IF kind = "east" THEN 1632 + (j % 10)
    ELSE IF kind = "ext" THEN 1776 + (j % 10)
    ELSE 45

Run(kind, n, off) == [i \in 1..n |-> CharOf(kind, off + i)]

\* response texts: optional white space around two runs of characters
Texts ==
    { lead \o Run(k1, n1, 0) \o Run(k2, n2, n1) \o trail :
        lead \in {<< >>, << 32 >>}, trail \in {<< >>, << 10 >>},
        k1 \in Kinds, k2 \in Kinds, n1 \in 0..MaxRun, n2 \in 0..MaxRun }

StatusCodes == {400, 404, 429, 500, 502, 503}

NoResponse == [post |-> "none", status_code |-> 0, json |-> "none", text |-> << >>]

\* what requests.post can do: raise a non-HTTP exception, answer with an
\* error status, or answer 200 with a body that is not JSON, has no
\* "candidates" key, has an empty candidates list, has a candidate of the
\* wrong shape, or has a candidate carrying a text
Responses ==
    { [post |-> "raised", status_code |-> 0, json |-> "none", text |-> << >>] }
    \cup { [post |-> "returned", status_code |-> s, json |-> "none", text |-> << >>] :
            s \in StatusCodes }
    \cup { [post |-> "returned", status_code |-> 200, json |-> j, text |-> << >>] :
            j \in {"invalid", "no_candidates", "empty_candidates", "malformed"} }
    \cup { [post |-> "returned", status_code |-> 200, json |-> "candidate", text |-> t] :
            t \in Texts }

\* response.raise_for_status() raises HTTPError
raise_for_status(r) == r.status_code >= 400 /\ r.status_code < 600

\* variant: tests the presence of the key, "'candidates' in result"
has_candidates_key_only(r) == r.json \in {"empty_candidates", "malformed", "candidate"}

\* result.get('candidates') is true
has_candidates(r) == r.json \in {"malformed", "candidate"}

\* variant: 400 is in the list of retried status codes
should_retry_400(status_code, att) ==
    status_code \in {400, 429, 500, 503} /\ att < max_retries - 1

\* variant: the test on the attempt number is missing
should_retry_unbounded(status_code, att) ==
    status_code \in {429, 500, 503}

\* e.response.status_code in [429, 500, 503] and attempt < max_retries - 1
should_retry(status_code, att) ==
    status_code \in {429, 500, 503} /\ att < max_retries - 1

\* variant: linear back-off, 2 * attempt
delay_linear(att) == 2 * att

\* delay = 2 ** attempt
delay(att) == 2 ^ att

\* variant: the text always goes through manual_conversion_fallback
parse_text_always_fallback(t) == manual_conversion_fallback(t)

\* lines 84-91: the value returned for a response text
parse_text(t) ==
    LET cleaned_id == filter_isdigit(t)
    IN  IF Len(cleaned_id) = ID_LENGTH THEN cleaned_id
        ELSE manual_conversion_fallback(t)

\* ------------------------------------------------------------------------
\* State
\* ------------------------------------------------------------------------

VARIABLES
    environ,          \* the process environment
    pc,               \* position of the program
    IMAGE_FILE_PATH,  \* the path typed at the prompt
    base64_image,     \* value returned by image_to_base64
    attempt,          \* loop variable of the retry loop
    response,         \* outcome of the latest requests.post
    text,             \* the stripped text of the first candidate
    extracted_id,     \* value returned by extract_id_from_image
    calls,            \* number of requests.post calls issued
    sleeps,           \* arguments of the time.sleep calls, in order
    reads,            \* number of open() calls
    prompts,          \* number of input() calls
    onlyRetryable,    \* every response so far was a 429, 500 or 503
    log               \* messages printed

vars == << environ, pc, IMAGE_FILE_PATH, base64_image, attempt, response, text,
           extracted_id, calls, sleeps, reads, prompts, onlyRetryable, log >>

API_KEY == environ_get(environ, "GEMINI_API_KEY", PLACEHOLDER)

Init ==
    /\ environ \in EnvValues
    /\ pc = "main"
    /\ IMAGE_FILE_PATH = ""
    /\ base64_image = None
    /\ attempt = 0
    /\ response = NoResponse
    /\ text = << >>
    /\ extracted_id = None
    /\ calls = 0
    /\ sleeps = << >>
    /\ reads = 0
    /\ prompts = 0
    /\ onlyRetryable = TRUE
    /\ log = << >>

\* ------------------------------------------------------------------------
\* __main__
\* ------------------------------------------------------------------------

\* variant: the gate tests for an empty key
key_is_empty(key) == key = ""

\* API_KEY == "PUT_YOUR_API_KEY_HERE"
key_is_placeholder(key) == key = PLACEHOLDER

\* lines 113-117
Main ==
    /\ pc = "main"
    /\ IF key_is_placeholder(API_KEY)
       THEN /\ log' = Append(log, "ERROR: Please set your GEMINI_API_KEY")
            /\ pc' = "exit"
            /\ UNCHANGED << IMAGE_FILE_PATH, prompts >>
       ELSE /\ \E p \in Paths : IMAGE_FILE_PATH' = p
            /\ prompts' = prompts + 1
            /\ log' = Append(log, "Starting National ID Extraction")
            /\ pc' = "load"
    /\ UNCHANGED << environ, base64_image, attempt, response, text, extracted_id,
                    calls, sleeps, reads, onlyRetryable >>

\* lines 120-126
MainReport ==
    /\ pc = "return"
    /\ log' = log \o << (IF Truthy(extracted_id)
                         THEN "Extracted National ID (14 digits)"
                         ELSE "Failed to extract the 14-digit National ID"),
                        "Extraction Complete" >>
    /\ pc' = "exit"
    /\ UNCHANGED << environ, IMAGE_FILE_PATH, base64_image, attempt, response, text,
                    extracted_id, calls, sleeps, reads, prompts, onlyRetryable >>

\* ------------------------------------------------------------------------
\* image_to_base64
\* ------------------------------------------------------------------------

\* line 16
LoaderPrint ==
    /\ pc = "load"
    /\ log' = Append(log, "Loading image from")
    /\ pc' = "read"
    /\ UNCHANGED << environ, IMAGE_FILE_PATH, base64_image, attempt, response, text,
                    extracted_id, calls, sleeps, reads, prompts, onlyRetryable >>

\* the value image_to_base64 returns for a file
image_to_base64(f) == IF f.open = "ok" THEN b64encode(f.bytes) ELSE None

\* lines 17-25
LoaderRead ==
    /\ pc = "read"
    /\ reads' = reads + 1
    /\ \E f \in FileStates :
        /\ base64_image' = image_to_base64(f)
        /\ log' = IF f.open = "FileNotFoundError"
                  THEN Append(log, "Error: Image file not found at path")
                  ELSE IF f.open = "OSError"
                  THEN Append(log, "An error occurred while reading the image")
                  ELSE log
    /\ pc' = "loaded"
    /\ UNCHANGED << environ, IMAGE_FILE_PATH, attempt, response, text,
                    extracted_id, calls, sleeps, prompts, onlyRetryable >>

\* ------------------------------------------------------------------------
\* extract_id_from_image
\* ------------------------------------------------------------------------

\* variant: base64_image == ""
image_is_empty(v) == v = << >>

\* not base64_image
no_image(v) == ~Truthy(v)

\* lines 39-75: give up without an image, else build the request and enter
\* the retry loop
CheckImage ==
    /\ pc = "loaded"
    /\ IF no_image(base64_image)
       THEN /\ extracted_id' = None
            /\ pc' = "return"
       ELSE /\ extracted_id' = extracted_id
            /\ pc' = "call"
    /\ attempt' = 0
    /\ UNCHANGED << environ, IMAGE_FILE_PATH, base64_image, response, text,
                    calls, sleeps, reads, prompts, onlyRetryable, log >>

\* lines 77-78: one HTTP POST and its outcome
Post ==
    /\ pc = "call"
    /\ log' = Append(log, "Attempting API call")
    /\ calls' = calls + 1
    /\ \E r \in Responses :
        /\ response' = r
        /\ onlyRetryable' = (onlyRetryable /\ r.status_code \in {429, 500, 503})
    /\ pc' = "response"
    /\ UNCHANGED << environ, IMAGE_FILE_PATH, base64_image, attempt, text,
                    extracted_id, sleeps, reads, prompts >>

\* lines 104-106: requests.post raised, response.json() raised, or the
\* candidate has not the shape candidates[0].content.parts[0].text
ExceptException ==
    /\ pc = "response"
    /\ \/ response.post = "raised"
       \/ /\ response.post = "returned"
          /\ ~raise_for_status(response)
          /\ \/ response.json = "invalid"
             \/ has_candidates(response) /\ response.json /= "candidate"
    /\ log' = Append(log, "Unexpected error")
    /\ extracted_id' = None
    /\ pc' = "return"
    /\ UNCHANGED << environ, IMAGE_FILE_PATH, base64_image, attempt, response, text,
                    calls, sleeps, reads, prompts, onlyRetryable >>

\* lines 96-103
ExceptHTTPError ==
    /\ pc = "response"
    /\ response.post = "returned"
    /\ raise_for_status(response)
    /\ IF should_retry(response.status_code, attempt)
       THEN /\ log' = log \o << "HTTP Error", "Retrying in" >>
            /\ pc' = "sleep"
            /\ UNCHANGED extracted_id
       ELSE /\ log' = Append(log, "HTTP Error")
            /\ extracted_id' = None
            /\ pc' = "return"
    /\ UNCHANGED << environ, IMAGE_FILE_PATH, base64_image, attempt, response, text,
                    calls, sleeps, reads, prompts, onlyRetryable >>

\* line 101, then the next iteration of the loop of line 75, or lines
\* 108-109 when the loop runs out
Sleep ==
    /\ pc = "sleep"
    /\ sleeps' = Append(sleeps, delay(attempt))
    /\ attempt' = attempt + 1
    /\ IF attempt + 1 < max_retries
       THEN /\ pc' = "call"
            /\ UNCHANGED << log, extracted_id >>
       ELSE /\ log' = Append(log, "API call failed after multiple retries")
            /\ extracted_id' = None
            /\ pc' = "return"
    /\ UNCHANGED << environ, IMAGE_FILE_PATH, base64_image, response, text,
                    calls, reads, prompts, onlyRetryable >>

\* lines 93-94
NoContent ==
    /\ pc = "response"
    /\ response.post = "returned"
    /\ ~raise_for_status(response)
    /\ response.json /= "invalid"
    /\ ~has_candidates(response)
    /\ log' = Append(log, "API response did not contain valid content")
    /\ extracted_id' = None
    /\ pc' = "return"
    /\ UNCHANGED << environ, IMAGE_FILE_PATH, base64_image, attempt, response, text,
                    calls, sleeps, reads, prompts, onlyRetryable >>

\* lines 83-91
ParseText ==
    /\ pc = "response"
    /\ response.post = "returned"
    /\ ~raise_for_status(response)
    /\ response.json = "candidate"
    /\ has_candidates(response)
    /\ text' = strip(response.text)
    /\ extracted_id' = parse_text(text')
    /\ log' = Append(log, IF Len(filter_isdigit(text')) = ID_LENGTH
                          THEN "Extraction successful"
                          ELSE "Extracted string not 14 digits")
    /\ pc' = "return"
    /\ UNCHANGED << environ, IMAGE_FILE_PATH, base64_image, attempt, response,
                    calls, sleeps, reads, prompts, onlyRetryable >>

Next ==
    \/ Main
    \/ LoaderPrint
    \/ LoaderRead
    \/ CheckImage
    \/ Post
    \/ ExceptException
    \/ ExceptHTTPError
    \/ Sleep
    \/ NoContent
    \/ ParseText
    \/ MainReport

Spec == Init /\ [][Next]_vars

\* the program is one thread and every call and sleep returns, so a step
\* that is possible is eventually taken
FairSpec == Spec /\ WF_vars(Next)


\* the extractor applied to a text alone, for the properties of the
\* normaliser as a function
NormInit ==
    /\ environ = {}
    /\ pc = "fallback"
    /\ IMAGE_FILE_PATH = ""
    /\ base64_image = None
    /\ attempt = 0
    /\ response = NoResponse
    /\ text \in Texts
    /\ extracted_id = None
    /\ calls = 0
    /\ sleeps = << >>
    /\ reads = 0
    /\ prompts = 0
    /\ onlyRetryable = TRUE
    /\ log = << >>

\* lines 27-35, one call
Normalize ==
    /\ pc = "fallback"
    /\ extracted_id' = manual_conversion_fallback(text)
    /\ pc' = "normalized"
    /\ UNCHANGED << environ, IMAGE_FILE_PATH, base64_image, attempt, response, text,
                    calls, sleeps, reads, prompts, onlyRetryable, log >>

NormNext == Normalize

NormSpec == NormInit /\ [][NormNext]_vars

\* ------------------------------------------------------------------------
\* Vocabulary of the properties
\* ------------------------------------------------------------------------

Range(s) == {s[i] : i \in 1..Len(s)}

IsAsciiDigit(c) == c \in 48..57

\* extract_id_from_image has returned
Returned == pc \in {"return", "exit"}

RetryableStatus(r) == r.post = "returned" /\ r.status_code \in {429, 500, 503}

\* the latest attempt ended with a non-retryable HTTP error status or with
\* an exception that is no HTTP error
HardFailure(r) ==
    \/ r.post = "raised"
    \/ /\ r.post = "returned"
       /\ r.status_code >= 400
       /\ r.status_code \notin {429, 500, 503}
    \/ /\ r.post = "returned"
       /\ r.status_code = 200
       /\ r.json \in {"invalid", "malformed"}

\* the latest attempt was answered with a body without a candidate
NoCandidate(r) ==
    /\ r.post = "returned"
    /\ r.status_code = 200
    /\ r.json \in {"no_candidates", "empty_candidates"}

\* the latest attempt was answered with a candidate carrying a text
HasText(r) ==
    /\ r.post = "returned"
    /\ r.status_code = 200
    /\ r.json = "candidate"

ExhaustedMessage == "API call failed after multiple retries"

\* ------------------------------------------------------------------------
\* Properties
\* ------------------------------------------------------------------------

\* C1: whenever extract_id_from_image returns a value other than None, the
\* value has exactly 14 characters and every one of them is an ASCII digit
\* '0'..'9', on the direct path and on the fallback path.
C1_ReturnedIdIsAscii14 ==
    (Returned /\ extracted_id /= None) =>
        /\ Len(extracted_id) = ID_LENGTH
        /\ \A i \in 1..Len(extracted_id) : IsAsciiDigit(extracted_id[i])

\* C2: when every attempt is answered with 429, 500 or 503, there are
\* exactly 5 POST calls, exactly the sleeps 1, 2, 4, 8 in that order (2^i
\* after attempt i, none after the fifth attempt), and the result is None;
\* no execution issues a sixth call.
C2_RetryBound ==
    /\ calls <= 5
    /\ (onlyRetryable /\ calls >= 1) =>
          /\ Len(sleeps) <= 4
          /\ sleeps = SubSeq(<< 1, 2, 4, 8 >>, 1, Len(sleeps))
          /\ Len(sleeps) \in {calls - 1, calls}
    /\ (Returned /\ onlyRetryable /\ calls >= 1) =>
          /\ calls = 5
          /\ sleeps = << 1, 2, 4, 8 >>
          /\ extracted_id = None

C2_Witness ==
    pc = "exit" /\ onlyRetryable /\ calls = 5 /\ response.status_code = 503

C3_AtReturn ==
    HardFailure(response) =>
        /\ pc \in {"response", "return", "exit"}
        /\ Returned =>
            /\ extracted_id = None
            /\ calls = attempt + 1
            /\ Len(sleeps) = attempt
            /\ (attempt = 0 => calls = 1)

C3_Step ==
    HardFailure(response) =>
        /\ calls' = calls
        /\ sleeps' = sleeps
        /\ response' = response

\* C3: at any attempt, a non-retryable HTTP error status or an exception
\* that is no HTTP error makes extract_id_from_image return None at once:
\* no sleep and no further POST follows, and a 400 on the first attempt
\* means exactly one call.
C3_HardFailureStops == []C3_AtReturn /\ [][C3_Step]_vars

C3_Witness ==
    /\ pc = "exit"
    /\ response.status_code = 400
    /\ attempt = 2
    /\ calls = 3
    /\ sleeps = << 1, 2 >>

\* C4: a run that ends after 5 attempts all answered with 429, 500 or 503
\* has printed "failed after multiple retries", and a run that ends in a
\* single-attempt hard failure has not.
C4_ExhaustionIsLogged ==
    /\ (Returned /\ onlyRetryable /\ calls = max_retries) =>
          ExhaustedMessage \in Range(log)
    /\ (Returned /\ HardFailure(response)) =>
          ExhaustedMessage \notin Range(log)

LoaderFailed == reads >= 1 /\ pc /= "read" /\ base64_image = None

LoaderErrors ==
    {"Error: Image file not found at path", "An error occurred while reading the image"}

\* C5: when image_to_base64 returns None (file not found or another read
\* error), extract_id_from_image returns None and issues no POST; the
\* progress message is printed before the read, and both kinds of failure
\* give the same value None.
C5_LoaderFailureStops ==
    /\ reads >= 1 => (Len(log) >= 2 /\ log[2] = "Loading image from")
    /\ pc = "read" => (reads = 0 /\ log[Len(log)] = "Loading image from")
    /\ LoaderFailed =>
          /\ calls = 0
          /\ pc \in {"loaded", "return", "exit"}
          /\ Returned => extracted_id = None
          /\ Len(log) >= 3 /\ log[3] \in LoaderErrors
    /\ (Range(log) \cap LoaderErrors /= {} /\ pc /= "read") => base64_image = None

C5_Witness ==
    /\ pc = "exit"
    /\ LoaderFailed
    /\ "An error occurred while reading the image" \in Range(log)

KeyMissing ==
    environ = {} \/ environ = {<<"GEMINI_API_KEY", PLACEHOLDER>>}

\* C6: with the API key unset or equal to the placeholder, the entry point
\* prints a configuration error and starts no extraction: no prompt, no
\* image load, no POST.
C6_ConfigurationGate ==
    KeyMissing =>
        /\ pc \in {"main", "exit"}
        /\ prompts = 0
        /\ reads = 0
        /\ calls = 0
        /\ pc = "exit" => log = << "ERROR: Please set your GEMINI_API_KEY" >>

C6_Witness == pc = "exit" /\ environ = {}

\* the normaliser as the design describes it: transliterate the ten
\* ARABIC-INDIC digits, keep the ASCII digits only, take the first 14
RefTransliterate(c) == IF c \in 1632..1641 THEN c - 1584 ELSE c

RECURSIVE RefAsciiDigits(_)
RefAsciiDigits(s) ==
    IF s = << >> THEN << >>
    ELSE IF IsAsciiDigit(RefTransliterate(Head(s)))
         THEN << RefTransliterate(Head(s)) >> \o RefAsciiDigits(Tail(s))
         ELSE RefAsciiDigits(Tail(s))

RefNormalize(s) ==
    IF Len(RefAsciiDigits(s)) >= 14
    THEN SubSeq(RefAsciiDigits(s), 1, 14)
    ELSE None

\* C7: on every text, manual_conversion_fallback gives what the reference
\* gives: the ARABIC-INDIC digits transliterated, every character that is
\* no ASCII digit discarded, then the first 14 characters if at least 14
\* remain and None otherwise.
C7_FallbackIsReference ==
    pc = "normalized" => extracted_id = RefNormalize(text)

C8_AtReturn ==
    (Returned /\ HasText(response)) =>
        LET t == strip(response.text)
            d == SelectSeq(t, str_isdigit)
        IN  /\ text = t
            /\ calls = attempt + 1
            /\ Len(d) = 14 => extracted_id = d
            /\ Len(d) /= 14 => extracted_id = manual_conversion_fallback(t)

C8_Step ==
    HasText(response) =>
        /\ calls' = calls
        /\ sleeps' = sleeps
        /\ Returned => extracted_id' = extracted_id

\* C8: for a response with a candidate, if the digits of the stripped text
\* are exactly 14 the result is those digits unchanged (no transliteration,
\* no fallback); otherwise the result is manual_conversion_fallback(text);
\* either way it is final and no further POST is made.
C8_ParseResult == []C8_AtReturn /\ [][C8_Step]_vars

\* the direct path has returned ARABIC-INDIC digits untransliterated
C8_Witness ==
    /\ pc = "exit"
    /\ HasText(response)
    /\ Len(filter_isdigit(text)) = 14
    /\ extracted_id = text
    /\ \E i \in 1..Len(extracted_id) : extracted_id[i] \in 1632..1641

C9_AtReturn ==
    NoCandidate(response) =>
        /\ pc \in {"response", "return", "exit"}
        /\ Returned =>
            /\ extracted_id = None
            /\ calls = attempt + 1
            /\ Len(sleeps) = attempt
            /\ "API response did not contain valid content" \in Range(log)
            /\ "Unexpected error" \notin Range(log)

C9_Step ==
    NoCandidate(response) =>
        /\ calls' = calls
        /\ sleeps' = sleeps
        /\ response' = response

\* C9: at any attempt, a successful response without a candidate (missing
\* or empty list) is reported as "no content" and returns None without a
\* retry: no sleep and no further POST.
C9_NoCandidateStops == []C9_AtReturn /\ [][C9_Step]_vars

C9_Witness ==
    /\ pc = "exit"
    /\ response.json = "empty_candidates"
    /\ attempt = 3
    /\ calls = 4

C10_Bounds ==
    /\ calls <= 5
    /\ Len(sleeps) <= 4
    /\ (Returned /\ calls >= 1) => Len(sleeps) = calls - 1
    /\ calls >= 1 => Len(sleeps) \in {calls - 1, calls}
    /\ (calls >= 1 /\ Len(sleeps) = calls) => pc = "call"

C10_Step ==
    /\ (calls' /= calls /\ calls >= 1) =>
          /\ RetryableStatus(response)
          /\ Len(sleeps) = calls
          /\ attempt < max_retries
    /\ sleeps' /= sleeps =>
          /\ RetryableStatus(response)
          /\ attempt < max_retries - 1
          /\ pc' = "call"

\* C10: every invocation terminates, after at most 5 POST calls and at
\* most 4 sleeps; a POST after the first is issued only directly after a
\* sleep that followed a 429, 500 or 503 on a non-final attempt; and an
\* invocation that made a call has slept once less than it has called,
\* except between the return of a sleep and the call that follows it.
C10_Terminates == <>(pc = "exit") /\ []C10_Bounds /\ [][C10_Step]_vars

C10_Witness ==
    /\ pc = "exit"
    /\ calls = 5
    /\ Len(sleeps) = 4
    /\ HasText(response)
    /\ Truthy(extracted_id)
====
